---- MODULE Spec2Model ----
\* The chat backend: MessagesGateway (connection lifecycle, rooms, typing,
\* message:send), PresenceService (a Redis hash per user with a 60 second
\* expiry), MessagesService and MessagesController (messages, their history,
\* channels) and AuthService (register, login, refresh).  Every await of the
\* source is a suspension point: a handler is split into one action per
\* store command or query and one per continuation that has a visible effect.
EXTENDS Integers, Sequences, FiniteSets, TLC

\* ------------------------------------------------------------------ bounds
MaxConns == 2        \* sockets that ever connect (socket ids are never reused)
MaxTasks == 2        \* message:send / POST /messages requests submitted where sockets and rooms are scheduled
MaxOps == 3          \* inbound events and HTTP requests ever handled
TickStep == 30       \* seconds of Redis time that pass in one Tick

\* ------------------------------------------------------- program constants
PresenceTtl == 60    \* redis.expire(key, 60)
JwtSecret == "dev-secret"

Conns == 1..MaxConns
Users == {"u1", "u2"}
Channels == {"r1", "r2"}

VARIABLES
    presence,   \* Redis: user id -> [hash, expires, left] of key presence:<userId>
    age,        \* per user: seconds (capped at 60) since the last store command of a setOnline/setOffline
    sock,       \* socket id -> "none" | "open" | "closed"
    auth,       \* socket id -> client.handshake.auth.token as <<>> or <<token>>
    dataUser,   \* socket id -> client.data.user
    hcPc,       \* socket id -> position of handleConnection
    hdPc,       \* socket id -> position of handleDisconnect
    rooms,      \* socket id -> set of rooms the socket has joined
    inbox,      \* socket id -> sequence of events delivered to the client
    tasks,      \* sequence of message:send / POST /messages requests, in submission order
    messages,   \* table messages, in insertion order
    links,      \* table message_attachments
    dbNow,      \* the database clock that stamps created_at
    ops,        \* number of inbound events and HTTP requests handled so far
    listed,     \* the GET /messages request being answered, as <<>> or <<[request and rows]>>
    channels,   \* table channels, in insertion order
    members,    \* table channel_members
    chTasks,    \* sequence of POST /messages/channels requests, in submission order
    users,      \* table users, in insertion order
    refreshTokens, \* table refresh_tokens, in insertion order
    authTasks,  \* sequence of POST /auth/register, /auth/login, /auth/refresh requests
    client      \* the desktop client of socket 1: its active channel, its fetch, its message lists

vars == <<presence, age, sock, auth, dataUser, hcPc, hdPc, rooms, inbox,
          tasks, messages, links, dbNow, ops, listed, channels, members, chTasks,
          users, refreshTokens, authTasks, client>>

presenceVars == <<presence, age>>
dbVars == <<tasks, messages, links, dbNow>>
\* the state that only the HTTP routes touch
channelVars == <<channels, members, chTasks>>
authVars == <<users, refreshTokens, authTasks>>
httpVars == <<listed, channelVars, authVars, client>>

\* ------------------------------------------------------------ Redis values
EmptyHash == [f \in {} |-> ""]
NoKey == [hash |-> EmptyHash, expires |-> FALSE, left |-> 0]

Exists(u) == DOMAIN presence[u].hash # {}

\* HGET key field: the field's value as <<v>>, or <<>> (null) when the key or the field is absent
HGet(u, field) ==
    IF field \in DOMAIN presence[u].hash THEN <<presence[u].hash[field]>> ELSE <<>>

\* HSET key f1 v1 ...: creates the key when absent, keeps the other fields and the expiry
HSet(u, kv) ==
    [presence[u] EXCEPT !.hash =
        [f \in DOMAIN presence[u].hash \cup DOMAIN kv |->
            IF f \in DOMAIN kv THEN kv[f] ELSE presence[u].hash[f]]]

\* EXPIRE that is never applied (the expire call left out)
Expire_dropped(u, seconds) == presence[u]

\* EXPIRE key seconds: sets the time to live of an existing key, nothing otherwise
Expire(u, seconds) ==
    IF Exists(u) THEN [presence[u] EXCEPT !.expires = TRUE, !.left = seconds]
    ELSE presence[u]

\* the key after d seconds: deleted when its time to live has run out
Elapse(rec, d) ==
    IF rec.hash # EmptyHash /\ rec.expires
    THEN IF rec.left > d THEN [rec EXCEPT !.left = rec.left - d] ELSE NoKey
    ELSE rec

\* ---------------------------------------------------------- PresenceService
\* getPresence: status ?? "offline"
getPresence(u) ==
    IF HGet(u, "status") = <<>> THEN "offline" ELSE HGet(u, "status")[1]

\* the owner comparison of setOffline: current === socketId
IsOwner(u, socketId) == HGet(u, "socketId") = <<socketId>>

\* ------------------------------------------------------------------ tokens
DisplayName(u) == IF u = "u1" THEN "Ann" ELSE "Bob"
SignedToken(u, secret) == [sub |-> u, displayName |-> DisplayName(u), secret |-> secret]
\* what a client may present: nothing, a token signed by the server, a forged one
Handshakes ==
    {<<>>} \cup {<<SignedToken(u, JwtSecret)>> : u \in Users}
           \cup {<<SignedToken("u1", "forged")>>}

\* a verification that does not check the signature
Verifies_unsigned(token) == TRUE

\* jwtService.verifyAsync(token, {secret}) resolves exactly for a token signed with the secret
Verifies(token) == token.secret = JwtSecret
NoUser == [userId |-> "undefined", displayName |-> "undefined"]
SocketUser(token) == [userId |-> token.sub, displayName |-> token.displayName]

\* ------------------------------------------------------------------ events
PresenceUpdate(u, status) == [type |-> "presence:update", userId |-> u, status |-> status]

\* socket.io delivers an emitted event to the sockets of `targets` that are connected
Deliver(targets, ev) ==
    [c \in Conns |-> IF c \in targets /\ sock[c] = "open" THEN Append(inbox[c], ev) ELSE inbox[c]]

\* client.emit
ToSelf(c) == {c}
\* client.broadcast.emit: every socket of the namespace except the client
ToOthers(c) == {d \in Conns : sock[d] = "open" /\ d # c}

\* ------------------------------------------------------------------ Init
Init ==
    /\ presence = [u \in Users |-> NoKey]
    /\ age = [u \in Users |-> PresenceTtl]
    /\ sock = [c \in Conns |-> "none"]
    /\ auth = [c \in Conns |-> <<>>]
    /\ dataUser = [c \in Conns |-> NoUser]
    /\ hcPc = [c \in Conns |-> "idle"]
    /\ hdPc = [c \in Conns |-> "idle"]
    /\ rooms = [c \in Conns |-> {}]
    /\ inbox = [c \in Conns |-> <<>>]
    /\ tasks = <<>>
    /\ messages = <<>>
    /\ links = {}
    /\ dbNow = 0
    /\ ops = 0
    /\ listed = <<>>
    /\ channels = <<>>
    /\ members = {}
    /\ chTasks = <<>>
    /\ users = <<>>
    /\ refreshTokens = <<>>
    /\ authTasks = <<>>
    /\ client = [active |-> <<>>, fetch |-> "none", fetched |-> <<>>,
                 messages |-> [ch \in Channels |-> <<>>], handled |-> 0]

\* ------------------------------------------------- socket close (socket.io)
\* The socket leaves its rooms and the namespace, then the gateway's
\* handleDisconnect runs up to its first await: it returns at once for a
\* socket without client.data.user and issues HGET otherwise.
handleDisconnect_start(c) == IF dataUser[c] = NoUser THEN "done" ELSE "hget"

\* a close that leaves the socket in its rooms
Close_roomsKept(c) ==
    /\ sock' = [sock EXCEPT ![c] = "closed"]
    /\ UNCHANGED rooms
    /\ hdPc' = [hdPc EXCEPT ![c] = handleDisconnect_start(c)]

Close(c) ==
    /\ sock' = [sock EXCEPT ![c] = "closed"]
    /\ rooms' = [rooms EXCEPT ![c] = {}]
    /\ hdPc' = [hdPc EXCEPT ![c] = handleDisconnect_start(c)]

\* ------------------------------------------------------- handleConnection
\* A socket connects: handleConnection runs up to the await of verifyAsync.
handleConnection(c, hs) ==
    /\ sock[c] = "none"
    /\ \A d \in Conns : d < c => sock[d] # "none"
    /\ auth' = [auth EXCEPT ![c] = hs]
    /\ IF hs = <<>>
       THEN /\ Close(c)
            /\ hcPc' = [hcPc EXCEPT ![c] = "done"]
       ELSE /\ sock' = [sock EXCEPT ![c] = "open"]
            /\ hcPc' = [hcPc EXCEPT ![c] = "verify"]
            /\ UNCHANGED <<rooms, hdPc>>
    /\ UNCHANGED <<httpVars, presenceVars, dataUser, inbox, dbVars, ops>>

\* verifyAsync settles: the identity is attached and setOnline issues HSET,
\* or the catch block disconnects the client.
handleConnection_verified(c) ==
    /\ hcPc[c] = "verify"
    /\ IF Verifies(auth[c][1])
       THEN /\ dataUser' = [dataUser EXCEPT ![c] = SocketUser(auth[c][1])]
            /\ hcPc' = [hcPc EXCEPT ![c] = "hset"]
            /\ UNCHANGED <<sock, rooms, hdPc>>
       ELSE /\ hcPc' = [hcPc EXCEPT ![c] = "done"]
            /\ IF sock[c] = "open" THEN Close(c) ELSE UNCHANGED <<sock, rooms, hdPc>>
            /\ UNCHANGED dataUser
    /\ UNCHANGED <<httpVars, presenceVars, auth, inbox, dbVars, ops>>

\* setOnline, first command: HSET presence:<userId> status online socketId <id>
setOnline_hset(c) ==
    /\ hcPc[c] = "hset"
    /\ LET u == dataUser[c].userId IN
        /\ presence' = [presence EXCEPT ![u] = HSet(u, [status |-> "online", socketId |-> c])]
        /\ age' = [age EXCEPT ![u] = 0]
    /\ hcPc' = [hcPc EXCEPT ![c] = "expire"]
    /\ UNCHANGED <<httpVars, sock, auth, dataUser, hdPc, rooms, inbox, dbVars, ops>>

\* setOnline, second command: EXPIRE presence:<userId> 60
setOnline_expire(c) ==
    /\ hcPc[c] = "expire"
    /\ LET u == dataUser[c].userId IN
        /\ presence' = [presence EXCEPT ![u] = Expire(u, PresenceTtl)]
        /\ age' = [age EXCEPT ![u] = 0]
    /\ hcPc' = [hcPc EXCEPT ![c] = "emit"]
    /\ UNCHANGED <<httpVars, sock, auth, dataUser, hdPc, rooms, inbox, dbVars, ops>>

\* the online event broadcast to the other sockets instead
OnlineTargets_broadcast(c) == ToOthers(c)

\* the recipients of handleConnection's presence:update online
OnlineTargets(c) == ToSelf(c)

\* setOnline has returned: client.emit("presence:update", {userId, status: "online"})
handleConnection_emit(c) ==
    /\ hcPc[c] = "emit"
    /\ inbox' = Deliver(OnlineTargets(c), PresenceUpdate(dataUser[c].userId, "online"))
    /\ hcPc' = [hcPc EXCEPT ![c] = "done"]
    /\ UNCHANGED <<httpVars, presenceVars, sock, auth, dataUser, hdPc, rooms, dbVars, ops>>

\* ------------------------------------------------------- handleDisconnect
\* The client goes away (or the transport closes).
Disconnect(c) ==
    /\ sock[c] = "open"
    /\ Close(c)
    /\ UNCHANGED <<httpVars, presenceVars, auth, dataUser, hcPc, inbox, dbVars, ops>>

\* setOffline without the owner comparison
setOffline_guard_missing(u, socketId) == TRUE

\* after HGET socketId: write only when the stored owner is this socket
setOffline_guard(u, socketId) == IsOwner(u, socketId)

\* setOffline, first command: HGET presence:<userId> socketId, then the comparison.
\* Redis runs the commands of the one connection in the order they were issued,
\* and setOnline's HSET was issued when the identity was attached.
setOffline_hget(c) ==
    /\ hdPc[c] = "hget"
    /\ hcPc[c] # "hset"
    /\ LET u == dataUser[c].userId IN
        /\ hdPc' = [hdPc EXCEPT ![c] = IF setOffline_guard(u, c) THEN "hset" ELSE "skipped"]
        /\ age' = [age EXCEPT ![u] = 0]
    /\ UNCHANGED <<httpVars, presence, sock, auth, dataUser, hcPc, rooms, inbox, dbVars, ops>>

\* setOffline, second command: HSET presence:<userId> status offline
setOffline_hset(c) ==
    /\ hdPc[c] = "hset"
    /\ LET u == dataUser[c].userId IN
        /\ presence' = [presence EXCEPT ![u] = HSet(u, [status |-> "offline"])]
        /\ age' = [age EXCEPT ![u] = 0]
    /\ hdPc' = [hdPc EXCEPT ![c] = "expire"]
    /\ UNCHANGED <<httpVars, sock, auth, dataUser, hcPc, rooms, inbox, dbVars, ops>>

\* setOffline, third command: EXPIRE presence:<userId> 60
setOffline_expire(c) ==
    /\ hdPc[c] = "expire"
    /\ LET u == dataUser[c].userId IN
        /\ presence' = [presence EXCEPT ![u] = Expire(u, PresenceTtl)]
        /\ age' = [age EXCEPT ![u] = 0]
    /\ hdPc' = [hdPc EXCEPT ![c] = "written"]
    /\ UNCHANGED <<httpVars, sock, auth, dataUser, hcPc, rooms, inbox, dbVars, ops>>

\* the offline event sent with client.emit instead of client.broadcast.emit
OfflineTargets_self(c) == ToSelf(c)

\* the recipients of handleDisconnect's presence:update offline
OfflineTargets(c) == ToOthers(c)

\* setOffline has returned ("skipped": without writing, "written": after its EXPIRE):
\* client.broadcast.emit("presence:update", {userId, status: "offline"})
handleDisconnect_broadcast(c) ==
    /\ hdPc[c] \in {"skipped", "written"}
    /\ inbox' = Deliver(OfflineTargets(c), PresenceUpdate(dataUser[c].userId, "offline"))
    /\ hdPc' = [hdPc EXCEPT ![c] = "done"]
    /\ UNCHANGED <<httpVars, presenceVars, sock, auth, dataUser, hcPc, rooms, dbVars, ops>>

\* ------------------------------------------------------------- Redis time
\* TickStep seconds pass: every key with an expiry loses them, or is deleted.
Tick ==
    /\ \E u \in Users : age[u] < PresenceTtl \/ (Exists(u) /\ presence[u].expires)
    /\ presence' = [u \in Users |-> Elapse(presence[u], TickStep)]
    /\ age' = [u \in Users |->
                IF age[u] + TickStep < PresenceTtl THEN age[u] + TickStep ELSE PresenceTtl]
    /\ UNCHANGED <<httpVars, sock, auth, dataUser, hcPc, hdPc, rooms, inbox, dbVars, ops>>

\* ------------------------------------------------------------------ rooms
ChannelJoined(ch) == [type |-> "channel:joined", channelId |-> ch]
ChannelLeft(ch) == [type |-> "channel:left", channelId |-> ch]
TypingUpdate(ch, u, flag) == [type |-> "typing:update", channelId |-> ch, userId |-> u, typing |-> flag]
MessageNew(row) == [type |-> "message:new", message |-> row]

\* server.to(room): every socket that has joined the room
InRoom(ch) == {d \in Conns : ch \in rooms[d]}
\* client.to(room): the same, except the client
InRoomExcept(ch, c) == InRoom(ch) \ {c}

\* channel:join: client.join(channelId), then the acknowledgement to the client
joinChannel(c, ch) ==
    /\ sock[c] = "open"
    /\ ops < MaxOps
    /\ rooms' = [rooms EXCEPT ![c] = @ \cup {ch}]
    /\ inbox' = Deliver(ToSelf(c), ChannelJoined(ch))
    /\ ops' = ops + 1
    /\ UNCHANGED <<httpVars, presenceVars, sock, auth, dataUser, hcPc, hdPc, dbVars>>

\* channel:leave that acknowledges without client.leave
leaveChannel_ackOnly(c, ch) ==
    /\ sock[c] = "open"
    /\ ops < MaxOps
    /\ inbox' = Deliver(ToSelf(c), ChannelLeft(ch))
    /\ ops' = ops + 1
    /\ UNCHANGED <<httpVars, presenceVars, sock, auth, dataUser, hcPc, hdPc, rooms, dbVars>>

\* channel:leave: client.leave(channelId), then the acknowledgement to the client
leaveChannel(c, ch) ==
    /\ sock[c] = "open"
    /\ ops < MaxOps
    /\ rooms' = [rooms EXCEPT ![c] = @ \ {ch}]
    /\ inbox' = Deliver(ToSelf(c), ChannelLeft(ch))
    /\ ops' = ops + 1
    /\ UNCHANGED <<httpVars, presenceVars, sock, auth, dataUser, hcPc, hdPc, dbVars>>

\* the recipients of typing:update: client.to(body.channelId)
TypingTargets(ch, c) == InRoomExcept(ch, c)

\* typing:start / typing:stop.  The handler reads user.userId: for a socket
\* without client.data.user that read throws and nothing is emitted.
typing(c, ch, flag) ==
    /\ sock[c] = "open"
    /\ ops < MaxOps
    /\ IF dataUser[c] = NoUser
       THEN UNCHANGED inbox
       ELSE inbox' = Deliver(TypingTargets(ch, c), TypingUpdate(ch, dataUser[c].userId, flag))
    /\ ops' = ops + 1
    /\ UNCHANGED <<httpVars, presenceVars, sock, auth, dataUser, hcPc, hdPc, rooms, dbVars>>

typingStart(c, ch) == typing(c, ch, TRUE)
typingStop(c, ch) == typing(c, ch, FALSE)

\* --------------------------------------------------------------- messages
Contents == {"hi"}
\* body.attachmentIds: absent (or empty), or two attachment ids
AttachmentLists == {<<>>, <<"X", "Y">>}
Range(seq) == {seq[i] : i \in 1..Len(seq)}

Request(kind, c, ch, u, content, atts) ==
    [kind |-> kind, conn |-> c, channelId |-> ch, senderId |-> u, content |-> content,
     attachmentIds |-> atts, pc |-> "insert", row |-> <<>>]

\* message:send that takes the sender from a fixed user, not from the socket
sendMessage_senderFixed(c, ch, content, atts) ==
    /\ sock[c] = "open"
    /\ ops < MaxOps
    /\ IF dataUser[c] = NoUser
       THEN UNCHANGED tasks
       ELSE tasks' = Append(tasks, Request("ws", <<c>>, ch, "u1", content, atts))
    /\ ops' = ops + 1
    /\ UNCHANGED <<httpVars, presenceVars, sock, auth, dataUser, hcPc, hdPc, rooms, inbox,
                   messages, links, dbNow>>

\* message:send, up to the await: user.userId throws for a socket without
\* client.data.user; otherwise createMessage issues its INSERT.
sendMessage(c, ch, content, atts) ==
    /\ sock[c] = "open"
    /\ ops < MaxOps
    /\ IF dataUser[c] = NoUser
       THEN UNCHANGED tasks
       ELSE tasks' = Append(tasks, Request("ws", <<c>>, ch, dataUser[c].userId, content, atts))
    /\ ops' = ops + 1
    /\ UNCHANGED <<httpVars, presenceVars, sock, auth, dataUser, hcPc, hdPc, rooms, inbox,
                   messages, links, dbNow>>

\* POST /messages (behind JwtAuthGuard): the controller calls createMessage
postMessage(u, ch, content, atts) ==
    /\ ops < MaxOps
    /\ tasks' = Append(tasks, Request("http", <<>>, ch, u, content, atts))
    /\ ops' = ops + 1
    /\ UNCHANGED <<httpVars, presenceVars, sock, auth, dataUser, hcPc, hdPc, rooms, inbox,
                   messages, links, dbNow>>

\* createMessage, first query: INSERT INTO messages ... RETURNING the row.
\* The id is a fresh uuid (the request's index), created_at the database clock.
createMessage_insert(i) ==
    /\ tasks[i].pc = "insert"
    /\ LET row == [id |-> i, channelId |-> tasks[i].channelId, senderId |-> tasks[i].senderId,
                   content |-> tasks[i].content, createdAt |-> dbNow] IN
        /\ messages' = Append(messages, row)
        /\ tasks' = [tasks EXCEPT ![i].row = <<row>>,
                                  ![i].pc = IF Len(tasks[i].attachmentIds) > 0 THEN "links" ELSE "return"]
    /\ UNCHANGED <<httpVars, presenceVars, sock, auth, dataUser, hcPc, hdPc, rooms, inbox, links, dbNow, ops>>

\* the first query is rejected: createMessage throws, and with it the handler
createMessage_insert_fails(i) ==
    /\ tasks[i].pc = "insert"
    /\ tasks' = [tasks EXCEPT ![i].pc = "failed"]
    /\ UNCHANGED <<httpVars, presenceVars, sock, auth, dataUser, hcPc, hdPc, rooms, inbox, messages, links, dbNow, ops>>

\* the second query is rejected: createMessage throws, and with it the
\* handler; nothing undoes the first query
createMessage_links_fails(i) ==
    /\ tasks[i].pc = "links"
    /\ tasks' = [tasks EXCEPT ![i].pc = "failed"]
    /\ UNCHANGED <<httpVars, presenceVars, sock, auth, dataUser, hcPc, hdPc, rooms, inbox, messages, links, dbNow, ops>>

\* createMessage, second query: INSERT INTO message_attachments, one row per attachment id
createMessage_links(i) ==
    /\ tasks[i].pc = "links"
    /\ links' = links \cup {[messageId |-> i, attachmentId |-> a] : a \in Range(tasks[i].attachmentIds)}
    /\ tasks' = [tasks EXCEPT ![i].pc = "return"]
    /\ UNCHANGED <<httpVars, presenceVars, sock, auth, dataUser, hcPc, hdPc, rooms, inbox, messages, dbNow, ops>>

\* message:new sent with client.to(room), which leaves the sender out
MessageTargets_exceptSender(i) == InRoomExcept(tasks[i].channelId, tasks[i].conn[1])

\* the recipients of message:new: this.server.to(body.channelId)
MessageTargets(i) == InRoom(tasks[i].channelId)

\* message:send, createMessage has returned: the broadcast of the row
sendMessage_emit(i) ==
    /\ tasks[i].pc = "return"
    /\ tasks[i].kind = "ws"
    /\ inbox' = Deliver(MessageTargets(i), MessageNew(tasks[i].row[1]))
    /\ tasks' = [tasks EXCEPT ![i].pc = "done"]
    /\ UNCHANGED <<httpVars, presenceVars, sock, auth, dataUser, hcPc, hdPc, rooms, messages, links, dbNow, ops>>

\* POST /messages, createMessage has returned: the row is the HTTP response
postMessage_respond(i) ==
    /\ tasks[i].pc = "return"
    /\ tasks[i].kind = "http"
    /\ tasks' = [tasks EXCEPT ![i].pc = "done"]
    /\ UNCHANGED <<httpVars, presenceVars, sock, auth, dataUser, hcPc, hdPc, rooms, inbox, messages, links, dbNow, ops>>

\* ------------------------------------------------------------ specification
Lifecycle ==
    \E c \in Conns :
        \/ \E hs \in Handshakes : handleConnection(c, hs)
        \/ handleConnection_verified(c)
        \/ setOnline_hset(c)
        \/ setOnline_expire(c)
        \/ handleConnection_emit(c)
        \/ Disconnect(c)
        \/ setOffline_hget(c)
        \/ setOffline_hset(c)
        \/ setOffline_expire(c)
        \/ handleDisconnect_broadcast(c)

Next == Lifecycle

\* connection lifecycle and presence commands, interleaved
Spec == Init /\ [][Next]_vars

NextExpiry == Lifecycle \/ Tick

\* the same, with Redis time passing
SpecExpiry == Init /\ [][NextExpiry]_vars

Rooms ==
    \E c \in Conns, ch \in Channels :
        \/ joinChannel(c, ch)
        \/ leaveChannel(c, ch)
        \/ typingStart(c, ch)
        \/ typingStop(c, ch)

Messaging ==
    \/ \E c \in Conns, ch \in Channels, content \in Contents, atts \in AttachmentLists :
            Len(tasks) < MaxTasks /\ sendMessage(c, ch, content, atts)
    \/ \E u \in Users, ch \in Channels, content \in Contents, atts \in AttachmentLists :
            Len(tasks) < MaxTasks /\ postMessage(u, ch, content, atts)
    \/ \E i \in 1..Len(tasks) :
            \/ createMessage_insert(i)
            \/ createMessage_links(i)
            \/ sendMessage_emit(i)
            \/ postMessage_respond(i)

\* The steps of the connection lifecycle that rooms and broadcasts depend on:
\* a socket opens with a token of the server, gets its identity when
\* verifyAsync settles, and closes.  The Redis commands of
\* setOnline/setOffline touch neither sockets, identities nor rooms and are
\* left unscheduled here; rejected handshakes are part of Spec.
Sockets ==
    \E c \in Conns :
        \/ \E hs \in {<<SignedToken(u, JwtSecret)>> : u \in Users} : handleConnection(c, hs)
        \/ handleConnection_verified(c)
        \/ Disconnect(c)

NextRooms == Sockets \/ Rooms

\* sockets, rooms and typing
SpecRooms == Init /\ [][NextRooms]_vars

\* joins and leaves that change the membership
Joins ==
    \E c \in Conns, ch \in Channels :
        \/ ch \notin rooms[c] /\ joinChannel(c, ch)
        \/ ch \in rooms[c] /\ leaveChannel(c, ch)

NextMessages == Sockets \/ Joins \/ Messaging

\* sockets, rooms and messages
SpecMessages == Init /\ [][NextMessages]_vars

\* message:send without attachments, through to its broadcast
Sends ==
    \/ \E c \in Conns, ch \in Channels, content \in Contents :
            Len(tasks) < MaxTasks /\ sendMessage(c, ch, content, <<>>)
    \/ \E i \in 1..Len(tasks) :
            \/ createMessage_insert(i)
            \/ sendMessage_emit(i)

NextChannels == Sockets \/ Rooms \/ Sends

\* sockets, rooms (any join and leave, subscribed or not), typing and broadcasts
SpecChannels == Init /\ [][NextChannels]_vars

\* ---------------------------------------------------------- GET /messages
MaxClock == 2        \* the database clock runs from 0 to MaxClock
DefaultLimit == 50   \* limit ? Number(limit) : 50

\* time passes in the database
DbTick ==
    /\ dbNow < MaxClock
    /\ dbNow' = dbNow + 1
    /\ UNCHANGED <<httpVars, presenceVars, sock, auth, dataUser, hcPc, hdPc, rooms, inbox,
                   tasks, messages, links, ops>>

\* the query parameters limit and before: absent (<<>>) or given
Limits == {<<>>, <<1>>, <<2>>}
Befores == {<<>>} \cup {<<t>> : t \in 0..MaxClock}

\* the controller's limit ? Number(limit) : 50
LimitOf(limit) == IF limit = <<>> THEN DefaultLimit ELSE limit[1]

\* WHERE created_at <= $3, the cursor row included
Eligible_inclusive(ch, before) ==
    {i \in 1..Len(messages) :
        /\ messages[i].channelId = ch
        /\ before # <<>> => messages[i].createdAt <= before[1]}

\* WHERE channel_id = $1 [AND created_at < $3]: the rows, by their place in the table
Eligible(ch, before) ==
    {i \in 1..Len(messages) :
        /\ messages[i].channelId = ch
        /\ before # <<>> => messages[i].createdAt < before[1]}

\* ORDER BY created_at DESC: the rows in an order in which created_at never
\* increases; the query names no second key, and the database may return
\* rows of equal created_at in either order
OrderByCreatedAtDesc(S) ==
    {s \in [1..Cardinality(S) -> S] :
        /\ \A j, k \in 1..Cardinality(S) : j # k => s[j] # s[k]
        /\ \A k \in 1..(Cardinality(S) - 1) : messages[s[k]].createdAt >= messages[s[k + 1]].createdAt}

\* LIMIT $2
Limit(s, n) == SubSeq(s, 1, IF n < Len(s) THEN n ELSE Len(s))

\* MessagesService.listMessages: the results the query can return, each the
\* sequence of the places of its rows in the table
listMessages(ch, limit, before) ==
    {Limit(s, limit) : s \in OrderByCreatedAtDesc(Eligible(ch, before))}

\* GET /messages?channelId=&limit=&before=: the query runs and returns rows
listMessages_query(ch, limit, before) ==
    /\ listed = <<>>
    /\ \E r \in listMessages(ch, LimitOf(limit), before) :
            listed' = <<[channelId |-> ch, limit |-> limit, before |-> before,
                         rows |-> [k \in 1..Len(r) |-> messages[r[k]]]]>>
    /\ UNCHANGED <<client, channelVars, authVars, presenceVars, sock, auth, dataUser, hcPc, hdPc, rooms, inbox, dbVars, ops>>

\* the rows are the HTTP response
listMessages_respond ==
    /\ listed # <<>>
    /\ listed' = <<>>
    /\ UNCHANGED <<client, channelVars, authVars, presenceVars, sock, auth, dataUser, hcPc, hdPc, rooms, inbox, dbVars, ops>>

\* POST /messages of one user without attachments, and GET /messages
History ==
    \/ \E ch \in Channels, content \in Contents : postMessage("u1", ch, content, <<>>)
    \/ \E i \in 1..Len(tasks) :
            \/ createMessage_insert(i)
            \/ postMessage_respond(i)
    \/ DbTick
    \/ \E ch \in Channels, limit \in Limits, before \in Befores : listMessages_query(ch, limit, before)
    \/ listMessages_respond

NextHistory == History

\* messages posted over HTTP and read back
SpecHistory == Init /\ [][NextHistory]_vars

\* ------------------------------------------------- POST /messages/channels
MaxChannels == 1     \* POST /messages/channels requests ever submitted
MaxMembers == 2      \* longest body.memberIds

\* the ids a body may name: the users and an id of no connected user
MemberIds == Users \cup {"u3"}
ChannelNames == {"general"}
\* body.memberIds ?? []: absent, or any list of ids, repetitions included
MemberLists == UNION {[1..n -> MemberIds] : n \in 0..MaxMembers}

\* Array.from(new Set(list)): the first occurrence of every element, in order
RECURSIVE Dedupe(_)
Dedupe(list) ==
    IF list = <<>> THEN <<>>
    ELSE LET front == Dedupe(SubSeq(list, 1, Len(list) - 1))
             last == list[Len(list)]
         IN IF last \in Range(front) THEN front ELSE Append(front, last)

\* a group from two members on
IsGroup_fromTwo(memberIds) == Len(memberIds) >= 2

\* memberIds.length > 2
IsGroup(memberIds) == Len(memberIds) > 2

\* the controller, up to the await of the service's first query:
\* memberIds = the requester and body.memberIds without repetitions
createChannel(u, name, body) ==
    /\ Len(chTasks) < MaxChannels
    /\ LET memberIds == Dedupe(<<u>> \o body) IN
        chTasks' = Append(chTasks,
            [requester |-> u, body |-> body, name |-> name, isGroup |-> IsGroup(memberIds),
             memberIds |-> memberIds, pc |-> "insert"])
    /\ UNCHANGED <<client, authVars, listed, channels, members, presenceVars, sock, auth, dataUser, hcPc, hdPc,
                   rooms, inbox, dbVars, ops>>

\* MessagesService.createChannel, first query: INSERT INTO channels.
\* The id is a fresh uuid (the request's index).
createChannel_insert(i) ==
    /\ chTasks[i].pc = "insert"
    /\ channels' = Append(channels, [id |-> i, name |-> chTasks[i].name, isGroup |-> chTasks[i].isGroup])
    /\ chTasks' = [chTasks EXCEPT ![i].pc = IF Len(chTasks[i].memberIds) > 0 THEN "members" ELSE "done"]
    /\ UNCHANGED <<client, authVars, listed, members, presenceVars, sock, auth, dataUser, hcPc, hdPc,
                   rooms, inbox, dbVars, ops>>

\* the first query is rejected: createChannel throws
createChannel_insert_fails(i) ==
    /\ chTasks[i].pc = "insert"
    /\ chTasks' = [chTasks EXCEPT ![i].pc = "failed"]
    /\ UNCHANGED <<client, authVars, listed, channels, members, presenceVars, sock, auth, dataUser, hcPc, hdPc,
                   rooms, inbox, dbVars, ops>>

\* second query: one INSERT INTO channel_members with a row per member id
\* (each with a fresh uuid, here the place in the list); the summary is returned
createChannel_members(i) ==
    /\ chTasks[i].pc = "members"
    /\ members' = members \cup
            {[id |-> <<i, k>>, channelId |-> i, userId |-> chTasks[i].memberIds[k]] :
                k \in 1..Len(chTasks[i].memberIds)}
    /\ chTasks' = [chTasks EXCEPT ![i].pc = "done"]
    /\ UNCHANGED <<client, authVars, listed, channels, presenceVars, sock, auth, dataUser, hcPc, hdPc,
                   rooms, inbox, dbVars, ops>>

\* the second query is rejected (the statement inserts no row): createChannel
\* throws, nothing undoes the first query
createChannel_members_fails(i) ==
    /\ chTasks[i].pc = "members"
    /\ chTasks' = [chTasks EXCEPT ![i].pc = "failed"]
    /\ UNCHANGED <<client, authVars, listed, channels, members, presenceVars, sock, auth, dataUser, hcPc, hdPc,
                   rooms, inbox, dbVars, ops>>

CreateChannels ==
    \/ \E u \in Users, name \in ChannelNames, body \in MemberLists : createChannel(u, name, body)
    \/ \E i \in 1..Len(chTasks) :
            \/ createChannel_insert(i)
            \/ createChannel_insert_fails(i)
            \/ createChannel_members(i)
            \/ createChannel_members_fails(i)

NextCreateChannels == CreateChannels

\* channels created over HTTP
SpecCreateChannels == Init /\ [][NextCreateChannels]_vars

\* ------------------------------------------------------------ AuthService
MaxAuth == 3         \* POST /auth/... requests ever submitted
MaxWeeks == 1        \* refresh-token lifetimes that pass
RefreshDays == 7     \* NOW() + INTERVAL '7 days', on a clock that counts days

Emails == {"a@x.com", "b@x.com"}
Passwords == {"password-1", "password-2"}
\* uuidv4() of createUser: the id of the next user row
UserIds == <<"u1", "u2">>

\* bcrypt reads the first 72 bytes of its input.  A password of the model is
\* shorter; of a signed token these bytes are the header and the beginning of
\* the payload, {"sub":"<the first 18 characters of the user id>
PasswordBytes72(password) == password
TokenBytes72(token) == [alg |-> "HS256", sub |-> token.sub]
\* bcrypt.hash / bcrypt.compare on those bytes (the salt is left out)
BcryptHash(bytes72) == [bcrypt |-> bytes72]
BcryptCompare(bytes72, hash) == hash.bcrypt = bytes72

\* the secret the AuthModule's JwtService signs with
SignSecret == JwtSecret
\* signAsync({sub, email, displayName})
AccessToken(user) ==
    [sub |-> user.id, email |-> user.email, displayName |-> user.displayName, secret |-> SignSecret]
\* signAsync({sub, type: "refresh"}, {expiresIn: "7d"}), issued at iat
RefreshToken(userId, iat) == [sub |-> userId, type |-> "refresh", iat |-> iat, secret |-> SignSecret]

\* a lookup that never finds the row
findByEmail_none(email) == <<>>

\* UsersService.findByEmail: result.rows[0] ?? null, as <<row>> or <<>>
findByEmail(email) ==
    LET found == {k \in 1..Len(users) : users[k].email = email}
    IN IF found = {} THEN <<>> ELSE <<users[CHOOSE k \in found : \A j \in found : k <= j]>>

\* UsersService.findById
findById(id) ==
    LET found == {k \in 1..Len(users) : users[k].id = id}
    IN IF found = {} THEN <<>> ELSE <<users[CHOOSE k \in found : \A j \in found : k <= j]>>

\* the users table accepts one row per email
UniqueEmail(email) == \A k \in 1..Len(users) : users[k].email # email

AuthRequest(kind, email, password, displayName, token, pc) ==
    [kind |-> kind, email |-> email, password |-> password, displayName |-> displayName,
     token |-> token, pc |-> pc, userId |-> <<>>, result |-> <<>>]

\* POST /auth/register, up to the await of findByEmail
register(email, password, displayName) ==
    /\ Len(authTasks) < MaxAuth
    /\ authTasks' = Append(authTasks, AuthRequest("register", email, password, displayName, <<>>, "find"))
    /\ UNCHANGED <<client, listed, channelVars, users, refreshTokens, presenceVars, sock, auth, dataUser,
                   hcPc, hdPc, rooms, inbox, dbVars, ops>>

\* findByEmail has answered: Conflict for an existing row, otherwise the
\* password is hashed and createUser issues its INSERT
register_found(i) ==
    /\ authTasks[i].kind = "register"
    /\ authTasks[i].pc = "find"
    /\ authTasks' = [authTasks EXCEPT ![i].pc =
            IF findByEmail(authTasks[i].email) # <<>> THEN "conflict" ELSE "create"]
    /\ UNCHANGED <<client, listed, channelVars, users, refreshTokens, presenceVars, sock, auth, dataUser,
                   hcPc, hdPc, rooms, inbox, dbVars, ops>>

\* UsersService.createUser: INSERT INTO users ... RETURNING the row; the
\* INSERT is rejected when the email is taken and register throws
register_createUser(i) ==
    /\ authTasks[i].kind = "register"
    /\ authTasks[i].pc = "create"
    /\ IF UniqueEmail(authTasks[i].email)
       THEN LET user == [id |-> UserIds[Len(users) + 1], email |-> authTasks[i].email,
                         passwordHash |-> BcryptHash(PasswordBytes72(authTasks[i].password)),
                         displayName |-> authTasks[i].displayName]
            IN /\ users' = Append(users, user)
               /\ authTasks' = [authTasks EXCEPT ![i].pc = "issue", ![i].userId = <<user.id>>]
       ELSE /\ authTasks' = [authTasks EXCEPT ![i].pc = "error"]
            /\ UNCHANGED users
    /\ UNCHANGED <<client, listed, channelVars, refreshTokens, presenceVars, sock, auth, dataUser,
                   hcPc, hdPc, rooms, inbox, dbVars, ops>>

\* POST /auth/login, up to the await of findByEmail
login(email, password) ==
    /\ Len(authTasks) < MaxAuth
    /\ authTasks' = Append(authTasks, AuthRequest("login", email, password, "", <<>>, "find"))
    /\ UNCHANGED <<client, listed, channelVars, users, refreshTokens, presenceVars, sock, auth, dataUser,
                   hcPc, hdPc, rooms, inbox, dbVars, ops>>

\* a comparison that accepts every password
PasswordMatches_any(password, passwordHash) == TRUE

\* bcrypt.compare(password, user.passwordHash)
PasswordMatches(password, passwordHash) == BcryptCompare(PasswordBytes72(password), passwordHash)

\* validateUser: findByEmail has answered; Unauthorized for no row or a
\* password that does not match, otherwise login goes on to issueTokens
validateUser(i) ==
    /\ authTasks[i].kind = "login"
    /\ authTasks[i].pc = "find"
    /\ LET user == findByEmail(authTasks[i].email) IN
        authTasks' =
            IF user # <<>> /\ PasswordMatches(authTasks[i].password, user[1].passwordHash)
            THEN [authTasks EXCEPT ![i].pc = "issue", ![i].userId = <<user[1].id>>]
            ELSE [authTasks EXCEPT ![i].pc = "unauthorized"]
    /\ UNCHANGED <<client, listed, channelVars, users, refreshTokens, presenceVars, sock, auth, dataUser,
                   hcPc, hdPc, rooms, inbox, dbVars, ops>>

\* the refresh tokens issued so far, and one signed with another secret
IssuedRefreshTokens ==
    {authTasks[i].result[1].refreshToken : i \in {k \in 1..Len(authTasks) : authTasks[k].result # <<>>}}
PresentedTokens ==
    IssuedRefreshTokens \cup {[sub |-> "u1", type |-> "refresh", iat |-> 0, secret |-> "forged"]}

\* POST /auth/refresh, up to the await of the SELECT
refresh(token) ==
    /\ Len(authTasks) < MaxAuth
    /\ authTasks' = Append(authTasks, AuthRequest("refresh", "", "", "", <<token>>, "select"))
    /\ UNCHANGED <<client, listed, channelVars, users, refreshTokens, presenceVars, sock, auth, dataUser,
                   hcPc, hdPc, rooms, inbox, dbVars, ops>>

\* a filter that keeps expired rows
NonExpired_all(row) == TRUE

\* WHERE expires_at > NOW()
NonExpired(row) == row.expiresAt > dbNow

\* stored.rows.find(row => bcrypt.compareSync(refreshToken, row.tokenHash)):
\* the first matching row as <<row>>, or <<>>
refresh_match(token) ==
    LET found == {k \in 1..Len(refreshTokens) :
                    /\ NonExpired(refreshTokens[k])
                    /\ BcryptCompare(TokenBytes72(token), refreshTokens[k].tokenHash)}
    IN IF found = {} THEN <<>> ELSE <<refreshTokens[CHOOSE k \in found : \A j \in found : k <= j]>>

\* the SELECT has answered: Unauthorized without a match, otherwise findById
refresh_selected(i) ==
    /\ authTasks[i].kind = "refresh"
    /\ authTasks[i].pc = "select"
    /\ LET match == refresh_match(authTasks[i].token[1]) IN
        authTasks' =
            IF match = <<>>
            THEN [authTasks EXCEPT ![i].pc = "unauthorized"]
            ELSE [authTasks EXCEPT ![i].pc = "findById", ![i].userId = <<match[1].userId>>]
    /\ UNCHANGED <<client, listed, channelVars, users, refreshTokens, presenceVars, sock, auth, dataUser,
                   hcPc, hdPc, rooms, inbox, dbVars, ops>>

\* findById has answered: Unauthorized for no user, otherwise issueTokens
refresh_foundUser(i) ==
    /\ authTasks[i].kind = "refresh"
    /\ authTasks[i].pc = "findById"
    /\ authTasks' = [authTasks EXCEPT ![i].pc =
            IF findById(authTasks[i].userId[1]) = <<>> THEN "unauthorized" ELSE "issue"]
    /\ UNCHANGED <<client, listed, channelVars, users, refreshTokens, presenceVars, sock, auth, dataUser,
                   hcPc, hdPc, rooms, inbox, dbVars, ops>>

\* issueTokens: both tokens are signed, the refresh token is hashed and its
\* record inserted with expires_at = NOW() + 7 days; the tokens are returned
issueTokens(i) ==
    /\ authTasks[i].pc = "issue"
    /\ LET user == findById(authTasks[i].userId[1])[1]
           refreshToken == RefreshToken(user.id, dbNow)
       IN /\ refreshTokens' = Append(refreshTokens,
                [userId |-> user.id, tokenHash |-> BcryptHash(TokenBytes72(refreshToken)),
                 expiresAt |-> dbNow + RefreshDays])
          /\ authTasks' = [authTasks EXCEPT
                ![i].pc = "done",
                ![i].result = <<[accessToken |-> AccessToken(user), refreshToken |-> refreshToken,
                                 user |-> [id |-> user.id, email |-> user.email,
                                           displayName |-> user.displayName]]>>]
    /\ UNCHANGED <<client, listed, channelVars, users, presenceVars, sock, auth, dataUser,
                   hcPc, hdPc, rooms, inbox, dbVars, ops>>

\* the lifetime of a refresh token passes
DbWeek ==
    /\ dbNow < MaxWeeks * RefreshDays
    /\ dbNow' = dbNow + RefreshDays
    /\ UNCHANGED <<httpVars, presenceVars, sock, auth, dataUser, hcPc, hdPc, rooms, inbox,
                   tasks, messages, links, ops>>

Auth ==
    \/ \E email \in Emails, password \in Passwords : register(email, password, "Ann")
    \/ \E email \in Emails, password \in Passwords : login(email, password)
    \/ \E token \in PresentedTokens : refresh(token)
    \/ \E i \in 1..Len(authTasks) :
            \/ register_found(i)
            \/ register_createUser(i)
            \/ validateUser(i)
            \/ refresh_selected(i)
            \/ refresh_foundUser(i)
            \/ issueTokens(i)
    \/ DbWeek

NextAuth == Auth

\* registration, login and token refresh
SpecAuth == Init /\ [][NextAuth]_vars

\* ---------------------------------------------- registration to presence
\* the access tokens returned so far
IssuedAccessTokens ==
    {authTasks[i].result[1].accessToken : i \in {k \in 1..Len(authTasks) : authTasks[k].result # <<>>}}

\* One client: it registers and logs in with a@x.com, and opens one socket
\* with an access token it was given.
EndToEnd ==
    \/ \E password \in Passwords : register("a@x.com", password, "Ann")
    \/ \E password \in Passwords : login("a@x.com", password)
    \/ \E i \in 1..Len(authTasks) :
            \/ register_found(i)
            \/ register_createUser(i)
            \/ validateUser(i)
            \/ issueTokens(i)
    \/ \E token \in IssuedAccessTokens : handleConnection(1, <<token>>)
    \/ handleConnection_verified(1)
    \/ setOnline_hset(1)
    \/ setOnline_expire(1)
    \/ handleConnection_emit(1)
    \/ Disconnect(1)
    \/ setOffline_hget(1)
    \/ setOffline_hset(1)
    \/ setOffline_expire(1)
    \/ handleDisconnect_broadcast(1)

NextEndToEnd == EndToEnd

\* registration, login and the socket of the logged-in client
SpecEndToEnd == Init /\ [][NextEndToEnd]_vars

\* message:send with or without attachments, its queries succeeding or not
SendsOrFails ==
    \/ \E c \in Conns, ch \in Channels, content \in Contents, atts \in AttachmentLists :
            Len(tasks) < MaxTasks /\ sendMessage(c, ch, content, atts)
    \/ \E i \in 1..Len(tasks) :
            \/ createMessage_insert(i)
            \/ createMessage_insert_fails(i)
            \/ createMessage_links(i)
            \/ createMessage_links_fails(i)
            \/ sendMessage_emit(i)

NextPersist == Sockets \/ Joins \/ SendsOrFails

\* sockets, rooms and message:send against a database that may reject a query
SpecPersist == Init /\ [][NextPersist]_vars

\* -------------------------------------------- Presence Store that may fail
\* A Redis command can be rejected (the connection to Redis is lost): it has
\* no effect on the key and its promise rejects.

\* setOnline's HSET is rejected inside handleConnection's try: the catch
\* block disconnects the client, whose identity is already attached.
setOnline_hset_fails(c) ==
    /\ hcPc[c] = "hset"
    /\ hcPc' = [hcPc EXCEPT ![c] = "done"]
    /\ IF sock[c] = "open" THEN Close(c) ELSE UNCHANGED <<sock, rooms, hdPc>>
    /\ UNCHANGED <<httpVars, presenceVars, auth, dataUser, inbox, dbVars, ops>>

\* setOnline's EXPIRE is rejected after its HSET was applied: the same catch
\* block; nothing undoes the HSET.
setOnline_expire_fails(c) ==
    /\ hcPc[c] = "expire"
    /\ hcPc' = [hcPc EXCEPT ![c] = "done"]
    /\ IF sock[c] = "open" THEN Close(c) ELSE UNCHANGED <<sock, rooms, hdPc>>
    /\ UNCHANGED <<httpVars, presenceVars, auth, dataUser, inbox, dbVars, ops>>

\* setOffline's HGET is rejected: handleDisconnect has no try block, the
\* rejection leaves it before the broadcast.
setOffline_hget_fails(c) ==
    /\ hdPc[c] = "hget"
    /\ hcPc[c] # "hset"
    /\ hdPc' = [hdPc EXCEPT ![c] = "failed"]
    /\ UNCHANGED <<httpVars, presenceVars, sock, auth, dataUser, hcPc, rooms, inbox, dbVars, ops>>

\* setOffline's HSET is rejected
setOffline_hset_fails(c) ==
    /\ hdPc[c] = "hset"
    /\ hdPc' = [hdPc EXCEPT ![c] = "failed"]
    /\ UNCHANGED <<httpVars, presenceVars, sock, auth, dataUser, hcPc, rooms, inbox, dbVars, ops>>

\* setOffline's EXPIRE is rejected after its HSET was applied
setOffline_expire_fails(c) ==
    /\ hdPc[c] = "expire"
    /\ hdPc' = [hdPc EXCEPT ![c] = "failed"]
    /\ UNCHANGED <<httpVars, presenceVars, sock, auth, dataUser, hcPc, rooms, inbox, dbVars, ops>>

Faults ==
    \E c \in Conns :
        \/ setOnline_hset_fails(c)
        \/ setOnline_expire_fails(c)
        \/ setOffline_hget_fails(c)
        \/ setOffline_hset_fails(c)
        \/ setOffline_expire_fails(c)

NextFaults == Lifecycle \/ Tick \/ Faults

\* the connection lifecycle against a Presence Store that may reject a command,
\* with Redis time passing
SpecFaults == Init /\ [][NextFaults]_vars

\* ------------------------------------------- rooms of the stored channels
\* the ids of the channels whose createChannel has returned
CreatedChannels == {i \in 1..Len(chTasks) : chTasks[i].pc = "done"}

\* the channel_members rows of channel ch that name user u
MembershipRows(u, ch) == {m \in members : m.channelId = ch /\ m.userId = u}

\* User u1 creates a channel for itself alone; the sockets of u1 and u2 and
\* the HTTP clients then name that channel in channel:join, typing:start,
\* message:send and POST /messages.
OfCreatedChannels ==
    \/ createChannel("u1", "general", <<>>)
    \/ \E i \in 1..Len(chTasks) :
            \/ createChannel_insert(i)
            \/ createChannel_members(i)
    \/ \E c \in Conns, ch \in CreatedChannels :
            \/ ch \notin rooms[c] /\ joinChannel(c, ch)
            \/ typingStart(c, ch)
            \/ \E content \in Contents :
                    Len(tasks) < MaxTasks /\ sendMessage(c, ch, content, <<>>)
    \/ \E u \in Users, ch \in CreatedChannels, content \in Contents :
            Len(tasks) < MaxTasks /\ postMessage(u, ch, content, <<>>)
    \/ \E i \in 1..Len(tasks) :
            \/ createMessage_insert(i)
            \/ sendMessage_emit(i)
            \/ postMessage_respond(i)

NextMembers == Sockets \/ OfCreatedChannels

\* sockets, rooms and messages of a channel that has membership rows
SpecMembers == Init /\ [][NextMembers]_vars

\* ------------------------------------------------------- desktop client
\* The client of socket 1 (user of that socket's token), its store and the
\* two effects of App that fill the message list of the active channel.

\* data.reverse()
Reverse(list) == [k \in 1..Len(list) |-> list[Len(list) + 1 - k]]

\* the store's addMessage: the message is appended to the list of its channel
addMessage(lists, message) ==
    [lists EXCEPT ![message.channelId] = Append(@, message)]

\* the store's setMessages: the list of the channel is replaced
setMessages(lists, ch, list) == [lists EXCEPT ![ch] = list]

\* The user selects a channel: the effect sends GET /messages?channelId= and
\* emits channel:join (handled by the gateway's joinChannel when it arrives).
selectChannel(ch) ==
    /\ client.active = <<>>
    /\ sock[1] = "open"
    /\ client' = [client EXCEPT !.active = <<ch>>, !.fetch = "sent"]
    /\ UNCHANGED <<listed, channelVars, authVars, presenceVars, sock, auth, dataUser, hcPc, hdPc,
                   rooms, inbox, dbVars, ops>>

\* the response of GET /messages arrives: .then(data => setMessages(activeChannelId, data.reverse()))
fetch_then ==
    /\ client.fetch = "sent"
    /\ listed # <<>>
    /\ client' = [client EXCEPT !.fetch = "applied",
                                !.fetched = listed[1].rows,
                                !.messages = setMessages(@, listed[1].channelId, Reverse(listed[1].rows))]
    /\ listed' = <<>>
    /\ UNCHANGED <<channelVars, authVars, presenceVars, sock, auth, dataUser, hcPc, hdPc,
                   rooms, inbox, dbVars, ops>>

\* the next event of the socket reaches the client: the message:new listener
\* calls addMessage; the other events have no listener that touches the lists
onEvent ==
    /\ client.handled < Len(inbox[1])
    /\ LET ev == inbox[1][client.handled + 1] IN
        client' = [client EXCEPT !.handled = @ + 1,
                                 !.messages = IF ev.type = "message:new"
                                              THEN addMessage(@, ev.message) ELSE @]
    /\ UNCHANGED <<listed, channelVars, authVars, presenceVars, sock, auth, dataUser, hcPc, hdPc,
                   rooms, inbox, dbVars, ops>>

\* the client on channel r1, and message:send of the sockets to that channel
Client ==
    \/ selectChannel("r1")
    \/ client.active = <<"r1">> /\ "r1" \notin rooms[1] /\ joinChannel(1, "r1")
    \/ client.fetch = "sent" /\ listMessages_query("r1", <<>>, <<>>)
    \/ fetch_then
    \/ onEvent
    \/ \E c \in Conns, content \in Contents :
            Len(tasks) < MaxTasks /\ sendMessage(c, "r1", content, <<>>)
    \/ \E i \in 1..Len(tasks) :
            \/ createMessage_insert(i)
            \/ sendMessage_emit(i)

NextClient == Sockets \/ Client

\* the desktop client, its socket, and messages sent to its channel
SpecClient == Init /\ [][NextClient]_vars

\* ================================================================= claims
IsOnlineEvent(ev) == ev.type = "presence:update" /\ ev.status = "online"
IsOfflineEvent(ev) == ev.type = "presence:update" /\ ev.status = "offline"
Received(c, P(_)) == {i \in 1..Len(inbox[c]) : P(inbox[c][i])}
ForgedOrMissing(c) == sock[c] # "none" /\ (auth[c] = <<>> \/ auth[c][1].secret # JwtSecret)
\* no setOnline/setOffline call of user u is between its first and its last store command
Quiescent(u) ==
    \A c \in Conns :
        dataUser[c].userId = u => hcPc[c] \notin {"hset", "expire"} /\ hdPc[c] \notin {"hget", "hset", "expire"}

\* C1: a setOffline(userId, A) whose HGET finds another owner, or no record,
\* returns without writing: the presence record (status, owner, expiration)
\* is the same after the call, so getPresence still returns what it did.
C1_StaleDisconnectGuard ==
    [][\A c \in Conns :
        (hdPc[c] = "hget" /\ hdPc'[c] # "hget" /\ ~IsOwner(dataUser[c].userId, c))
            => /\ presence' = presence
               /\ hdPc'[c] = "skipped"
               /\ getPresence(dataUser[c].userId)' = getPresence(dataUser[c].userId)]_vars

\* online(A), online(B), offline(A) have run: the record is B's and online
C1_Witness ==
    \E c, d \in Conns :
        /\ c # d
        /\ hdPc[c] = "skipped"
        /\ hcPc[d] \in {"expire", "emit", "done"}
        /\ dataUser[d].userId = dataUser[c].userId
        /\ IsOwner(dataUser[c].userId, d)
        /\ getPresence(dataUser[c].userId) = "online"

\* C2: under every interleaving of the store commands, a setOffline(u, A)
\* (of a connection A whose own handshake has completed) never turns the
\* stored status of u from online to offline while the stored owner is
\* another connection B: the connection whose HSET clears the status is the
\* stored owner.
C2_OnlyOwnerClears ==
    [][\A c \in Conns :
        (/\ hcPc[c] = "done"
         /\ hdPc[c] = "hset" /\ hdPc'[c] = "expire"
         /\ getPresence(dataUser[c].userId) = "online")
            => IsOwner(dataUser[c].userId, c)]_vars

C4_RejectedHandshake ==
    \A c \in Conns :
        ForgedOrMissing(c) =>
            /\ dataUser[c] = NoUser
            /\ hcPc[c] \in {"verify", "done"}
            /\ auth[c] = <<>> => hcPc[c] = "done"
            /\ hcPc[c] = "done" => sock[c] = "closed"
            /\ hdPc[c] \in {"idle", "done"}
            /\ sock[c] = "closed" => hdPc[c] = "done"
            /\ Received(c, IsOnlineEvent) = {}

\* a forged token was rejected and the socket closed while an authenticated
\* socket was connected, which received nothing about it
C4_Witness ==
    \E c, d \in Conns :
        /\ auth[c] # <<>>
        /\ auth[c][1].secret # JwtSecret
        /\ hcPc[c] = "done"
        /\ hdPc[c] = "done"
        /\ sock[d] = "open"
        /\ hcPc[d] = "done"
        /\ dataUser[d] # NoUser
        /\ Received(d, IsOfflineEvent) = {}
        /\ presence[dataUser[d].userId].expires

\* C5: getPresence returns the stored status, and "offline" when no record
\* exists; once 60 seconds have passed since the last store command of a
\* setOnline/setOffline of a user, with none in progress, the record is gone.
C5_Expiry ==
    \A u \in Users :
        /\ getPresence(u) = IF Exists(u) THEN presence[u].hash.status ELSE "offline"
        /\ (Quiescent(u) /\ age[u] >= PresenceTtl) => ~Exists(u) /\ getPresence(u) = "offline"

\* a user's record has expired although the connection that set it is still open
C5_Witness ==
    \E c \in Conns :
        /\ sock[c] = "open"
        /\ hcPc[c] = "done"
        /\ dataUser[c] # NoUser
        /\ Quiescent(dataUser[c].userId)
        /\ age[dataUser[c].userId] >= PresenceTtl
        /\ ~Exists(dataUser[c].userId)

\* C8: closing a connection with an attached identity starts setOffline
\* (HGET), and when setOffline has returned the offline event is delivered to
\* every other connected socket and not to the closed one.
C8_OfflineBroadcast ==
    [][\A c \in Conns :
        /\ (sock[c] = "open" /\ sock'[c] = "closed" /\ dataUser[c] # NoUser) => hdPc'[c] = "hget"
        /\ (hdPc[c] \in {"skipped", "written"} /\ hdPc'[c] = "done")
            => /\ sock[c] = "closed"
               /\ inbox' = [d \in Conns |->
                    IF d # c /\ sock[d] = "open"
                    THEN Append(inbox[d], PresenceUpdate(dataUser[c].userId, "offline"))
                    ELSE inbox[d]]]_vars

\* a disconnect has been broadcast: the other socket holds the offline event
C8_Witness ==
    \E c, d \in Conns :
        /\ c # d
        /\ hdPc[c] = "done"
        /\ dataUser[c] # NoUser
        /\ sock[d] = "open"
        /\ \E i \in Received(d, IsOfflineEvent) : inbox[d][i].userId = dataUser[c].userId
        /\ Received(c, IsOfflineEvent) = {}

IsMessageNew(ev) == ev.type = "message:new"
\* the event is appended to the inbox of exactly the sockets in the room `ch`
DeliveredToRoom(ch, ev) ==
    inbox' = [d \in Conns |-> IF ch \in rooms[d] THEN Append(inbox[d], ev) ELSE inbox[d]]

\* C6: the message:new of a message:send is delivered to every socket that is
\* in the channel's room when it is broadcast, the sender included, and to no
\* other socket; no other step delivers a message:new.
C6_BroadcastExact ==
    [][/\ \A i \in 1..Len(tasks) :
            sendMessage_emit(i) => DeliveredToRoom(tasks[i].channelId, MessageNew(tasks[i].row[1]))
       /\ \A d \in Conns :
            (Len(inbox'[d]) > Len(inbox[d]) /\ IsMessageNew(inbox'[d][Len(inbox'[d])]))
                => \E i \in 1..Len(tasks) :
                    /\ sendMessage_emit(i)
                    /\ tasks[i].channelId \in rooms[d]
                    /\ inbox'[d][Len(inbox'[d])] = MessageNew(tasks[i].row[1])]_vars

\* a message:send was broadcast: the subscribed sender holds it, the other
\* connected socket, which is not in the room, does not
C6_Witness ==
    \E i \in 1..Len(tasks), d \in Conns :
        /\ tasks[i].pc = "done"
        /\ tasks[i].kind = "ws"
        /\ d # tasks[i].conn[1]
        /\ sock[d] = "open"
        /\ tasks[i].channelId \notin rooms[d]
        /\ rooms[d] # {}
        /\ Received(d, IsMessageNew) = {}
        /\ \E k \in Received(tasks[i].conn[1], IsMessageNew) :
                inbox[tasks[i].conn[1]][k].message.id = i

\* C7: every request that persisted a message, message:send or POST /messages,
\* ends with the message:new broadcast of the row to the sockets in the room.
C7_PersistedIsBroadcast ==
    [][\A i \in 1..Len(tasks) :
        (tasks[i].pc = "return" /\ tasks'[i].pc = "done")
            => DeliveredToRoom(tasks[i].channelId, MessageNew(tasks[i].row[1]))]_vars

\* C9: a socket never receives message:new of a later message:send before
\* that of an earlier message:send of the same connection to the same channel
\* (message ids are the submission indices).
C9_SubmissionOrder ==
    \A d \in Conns :
        \A p, q \in Received(d, IsMessageNew) :
            LET m1 == inbox[d][p].message
                m2 == inbox[d][q].message
            IN (p < q /\ tasks[m1.id].conn = tasks[m2.id].conn /\ m1.channelId = m2.channelId)
                    => m1.id < m2.id

\* C10: typing:start / typing:stop from a socket deliver typing:update with
\* the sender's user id to every other socket in the room and to none
\* outside it, and change no stored state.
C10_TypingFanOut ==
    [][\A c \in Conns, ch \in Channels, flag \in BOOLEAN :
        typing(c, ch, flag)
            => /\ inbox' = [d \in Conns |->
                    IF ch \in rooms[d] /\ d # c
                    THEN Append(inbox[d], TypingUpdate(ch, auth[c][1].sub, flag))
                    ELSE inbox[d]]
               /\ UNCHANGED <<presence, rooms, tasks, messages, links, dataUser>>]_vars

\* the step appends the event to the inbox of socket c
Acked(c, ev) == inbox'[c] = Append(inbox[c], ev)

\* in the inbox of d, every message:new of a room that comes after a
\* channel:left of that room has a channel:joined of the room in between
NoneAfterLeave(d) ==
    \A p, q \in 1..Len(inbox[d]) :
        (/\ p < q
         /\ inbox[d][p].type = "channel:left"
         /\ IsMessageNew(inbox[d][q])
         /\ inbox[d][q].message.channelId = inbox[d][p].channelId)
            => \E r \in (p + 1)..(q - 1) : inbox[d][r] = ChannelJoined(inbox[d][p].channelId)

\* C11: the step that acknowledges channel:joined / channel:left of room ch
\* to socket c adds ch to / removes ch from the rooms of c, changes the rooms
\* of no other socket and no other room of c, and delivers nothing to any
\* other socket (so a second join changes nothing); a socket that left a
\* room receives no message:new of that room until it joins again.
C11_Membership ==
    /\ [](\A d \in Conns : NoneAfterLeave(d))
    /\ [][\A c \in Conns, ch \in Channels :
            /\ Acked(c, ChannelJoined(ch))
                => /\ rooms' = [rooms EXCEPT ![c] = rooms[c] \cup {ch}]
                   /\ \A d \in Conns \ {c} : inbox'[d] = inbox[d]
            /\ Acked(c, ChannelLeft(ch))
                => /\ rooms' = [rooms EXCEPT ![c] = rooms[c] \ {ch}]
                   /\ \A d \in Conns \ {c} : inbox'[d] = inbox[d]
            /\ (rooms'[c] # rooms[c] /\ sock'[c] = "open")
                => Acked(c, ChannelJoined(ch)) \/ Acked(c, ChannelLeft(ch))
                    \/ rooms'[c] \ {ch} # rooms[c] \ {ch}]_vars

\* a socket joined a room and left it, and a message:send to that room has
\* been broadcast: the socket, still connected, holds no message:new
C11_Witness ==
    \E c \in Conns, ch \in Channels, i \in 1..Len(tasks) :
        /\ sock[c] = "open"
        /\ \E p, q \in 1..Len(inbox[c]) :
                p < q /\ inbox[c][p] = ChannelJoined(ch) /\ inbox[c][q] = ChannelLeft(ch)
        /\ tasks[i].channelId = ch
        /\ tasks[i].pc = "done"
        /\ Received(c, IsMessageNew) = {}

\* the step in which a GET /messages query runs
Queried == listed = <<>> /\ listed' # <<>>
\* the rows of the table (by place) that a query for ch and before may return
Matching(ch, before) ==
    {i \in 1..Len(messages) :
        messages[i].channelId = ch /\ (before = <<>> \/ messages[i].createdAt < before[1])}

\* C12: listMessages(channelId, limit, before?) returns rows of the table of
\* that channel only, each once, as many as there are up to limit (50 when
\* no limit is given), in descending created_at order, none older than a row
\* it leaves out, and with before only rows created strictly before it; with
\* M1, M2, M3 the rows of a channel, created in that order with increasing
\* timestamps, limit=2 returns [M3, M2] and with before = M3.createdAt
\* [M2, M1].
C12_ListMessages ==
    [][Queried =>
        LET q == listed'[1]
            rows == q.rows
            n == IF q.limit = <<>> THEN 50 ELSE q.limit[1]
            E == Matching(q.channelId, q.before)
        IN  /\ \A k \in 1..Len(rows) :
                    \E i \in E : rows[k] = messages[i]
            /\ \A j, k \in 1..Len(rows) : j # k => rows[j].id # rows[k].id
            /\ Len(rows) = IF Cardinality(E) < n THEN Cardinality(E) ELSE n
            /\ \A k \in 1..(Len(rows) - 1) : rows[k].createdAt >= rows[k + 1].createdAt
            /\ \A i \in E : \A k \in 1..Len(rows) :
                    messages[i].createdAt > rows[k].createdAt => \E j \in 1..Len(rows) : rows[j] = messages[i]
            /\ \A i1, i2, i3 \in 1..Len(messages) :
                    (/\ Matching(q.channelId, <<>>) = {i1, i2, i3}
                     /\ messages[i1].createdAt < messages[i2].createdAt
                     /\ messages[i2].createdAt < messages[i3].createdAt
                     /\ q.limit = <<2>>)
                        => /\ q.before = <<>> => rows = <<messages[i3], messages[i2]>>
                           /\ q.before = <<messages[i3].createdAt>> => rows = <<messages[i2], messages[i1]>>]_vars

\* M1, M2, M3 of one channel have increasing timestamps and a query with
\* limit=2 and before = M3.createdAt is answered with [M2, M1]
C12_Witness ==
    /\ listed # <<>>
    /\ listed[1].limit = <<2>>
    /\ listed[1].before = <<MaxClock>>
    /\ Len(listed[1].rows) = 2
    /\ listed[1].rows[1].createdAt = 1
    /\ listed[1].rows[2].createdAt = 0
    /\ \E i \in 1..Len(messages) :
            messages[i].channelId = listed[1].channelId /\ messages[i].createdAt = MaxClock

\* C13: rows of a channel with the same created_at are returned in insertion
\* order, the later inserted first.
C13_TiesByInsertion ==
    listed # <<>> =>
        \A j, k \in 1..Len(listed[1].rows) :
            (j < k /\ listed[1].rows[j].createdAt = listed[1].rows[k].createdAt)
                => \E a, b \in 1..Len(messages) :
                        a > b /\ messages[a] = listed[1].rows[j] /\ messages[b] = listed[1].rows[k]

\* the membership rows stored for channel i
MemberRows(i) == {m \in members : m.channelId = i}
ChannelRows(i) == {k \in 1..Len(channels) : channels[k].id = i}

\* C14: for every channel created through POST /messages/channels the
\* requester is among the stored members, the members are the requester and
\* the ids of the body, each stored once, and the stored and the returned
\* isGroup are true exactly when there are more than two distinct members:
\* true for three members, false for two.
C14_ChannelMembers ==
    \A i \in 1..Len(chTasks) :
        chTasks[i].pc = "done" =>
            LET stored == {m.userId : m \in MemberRows(i)}
                asked == {chTasks[i].requester} \cup Range(chTasks[i].body)
            IN  /\ Cardinality(ChannelRows(i)) = 1
                /\ chTasks[i].requester \in stored
                /\ stored = asked
                /\ Cardinality(MemberRows(i)) = Cardinality(stored)
                /\ Len(chTasks[i].memberIds) = Cardinality(stored)
                /\ \A k \in ChannelRows(i) :
                        /\ channels[k].isGroup = (Cardinality(asked) > 2)
                        /\ channels[k].isGroup = chTasks[i].isGroup
                        /\ Cardinality(asked) = 3 => channels[k].isGroup
                        /\ Cardinality(asked) = 2 => ~channels[k].isGroup

\* a channel was created for a requester and a body that names two others:
\* three membership rows, a group
C14_Witness ==
    \E i \in 1..Len(chTasks) :
        /\ chTasks[i].pc = "done"
        /\ Len(chTasks[i].body) = 2
        /\ {m.userId : m \in MemberRows(i)} = {"u1", "u2", "u3"}
        /\ Cardinality(MemberRows(i)) = 3
        /\ \E k \in ChannelRows(i) : channels[k].isGroup

\* C15: every stored channel row of a createChannel call that has ended,
\* with its result or with a failure, has exactly one membership row per
\* member id passed to the call.
C15_ChannelWithMembers ==
    \A i \in 1..Len(chTasks) :
        (chTasks[i].pc \in {"done", "failed"} /\ ChannelRows(i) # {}) =>
            /\ {m.userId : m \in MemberRows(i)} = Range(chTasks[i].memberIds)
            /\ Cardinality(MemberRows(i)) = Len(chTasks[i].memberIds)

\* the requests of a kind that are at one of the positions
AuthAt(kind, pcs) ==
    {i \in 1..Len(authTasks) : authTasks[i].kind = kind /\ authTasks[i].pc \in pcs}
Registered(email) == \E k \in 1..Len(users) : users[k].email = email

RegisteredWith(email, password) ==
    \E k \in AuthAt("register", {"issue", "done"}) :
        authTasks[k].email = email /\ authTasks[k].password = password

\* C17: once a user is registered, a login with the email and another
\* password ends Unauthorized in the step that checks it, writes nothing and
\* stays without result; a login with the registered password goes on to
\* issueTokens, and every call that has returned holds an access token of
\* its user, with one refresh-token record per returned call; a socket that
\* presents an access token so returned passes verification and gets the
\* token's identity, and when its handleConnection completes, the socket
\* still open, getPresence of the user is "online".
C17_EndToEnd ==
    /\ [](Len(refreshTokens) = Cardinality({i \in 1..Len(authTasks) : authTasks[i].pc = "done"}))
    /\ [](\A i \in 1..Len(authTasks) :
            /\ authTasks[i].pc = "unauthorized" => authTasks[i].result = <<>>
            /\ authTasks[i].pc = "done" =>
                    /\ authTasks[i].result # <<>>
                    /\ authTasks[i].result[1].accessToken.sub = authTasks[i].result[1].user.id
                    /\ authTasks[i].result[1].user.email = authTasks[i].email)
    /\ [][\A i \in 1..Len(authTasks) :
            /\ (authTasks[i].kind = "login" /\ authTasks[i].pc = "find" /\ authTasks'[i].pc # "find")
                    => /\ refreshTokens' = refreshTokens
                       /\ users' = users
                       /\ (Registered(authTasks[i].email) /\ ~RegisteredWith(authTasks[i].email, authTasks[i].password))
                            => authTasks'[i].pc = "unauthorized"
                       /\ RegisteredWith(authTasks[i].email, authTasks[i].password)
                            => authTasks'[i].pc = "issue"
            /\ authTasks[i].pc = "unauthorized" => authTasks'[i] = authTasks[i]]_vars
    /\ [][\A c \in Conns :
            /\ (hcPc[c] = "verify" /\ hcPc'[c] # "verify" /\ auth[c][1] \in IssuedAccessTokens)
                    => /\ hcPc'[c] = "hset"
                       /\ dataUser'[c] = [userId |-> auth[c][1].sub, displayName |-> auth[c][1].displayName]
            /\ (hcPc[c] = "emit" /\ hcPc'[c] = "done" /\ sock[c] = "open")
                    => getPresence(auth[c][1].sub)' = "online"]_vars

\* a@x.com registered, a login with another password was refused, a login
\* with the password returned tokens, and the socket opened with that access
\* token has completed handleConnection: the user is online
C17_Witness ==
    \E r, w, l \in 1..Len(authTasks) :
        /\ authTasks[r].kind = "register" /\ authTasks[r].pc = "done"
        /\ authTasks[w].kind = "login" /\ authTasks[w].pc = "unauthorized"
        /\ authTasks[w].password # authTasks[r].password
        /\ authTasks[l].kind = "login" /\ authTasks[l].pc = "done"
        /\ Len(refreshTokens) = 2
        /\ sock[1] = "open"
        /\ hcPc[1] = "done"
        /\ auth[1] = <<authTasks[l].result[1].accessToken>>
        /\ getPresence(authTasks[l].result[1].user.id) = "online"
        /\ Received(1, IsOnlineEvent) # {}

\* the records a presented token is accepted for: not expired, and the
\* stored hash is a bcrypt hash of the token
AcceptedFor(token) ==
    {k \in 1..Len(refreshTokens) :
        /\ refreshTokens[k].expiresAt > dbNow
        /\ refreshTokens[k].tokenHash = BcryptHash(TokenBytes72(token))
        /\ \E u \in 1..Len(users) : users[u].id = refreshTokens[k].userId}

\* C18: refresh(token) goes on to issue tokens exactly when the token matches
\* the stored hash of a record that has not expired and whose user exists,
\* and otherwise ends Unauthorized; until it issues it writes nothing; a
\* refresh that returns has added one record and changed none; every token
\* returned by register, login or refresh whose record has not expired is
\* accepted in every later state.
C18_Refresh ==
    /\ [](\A i \in 1..Len(authTasks) :
            (authTasks[i].result # <<>> /\ authTasks[i].result[1].refreshToken.iat + RefreshDays > dbNow)
                => AcceptedFor(authTasks[i].result[1].refreshToken) # {})
    /\ [][\A i \in AuthAt("refresh", {"select", "findById", "issue", "unauthorized"}) :
            /\ (authTasks[i].pc = "select" /\ authTasks'[i].pc # "select")
                    => /\ authTasks'[i].pc =
                            IF AcceptedFor(authTasks[i].token[1]) # {} THEN "findById" ELSE "unauthorized"
                       /\ refreshTokens' = refreshTokens
                       /\ users' = users
            /\ (authTasks[i].pc = "findById" /\ authTasks'[i].pc # "findById")
                    => /\ authTasks'[i].pc = "issue"
                       /\ refreshTokens' = refreshTokens
                       /\ users' = users
            /\ (authTasks[i].pc = "issue" /\ authTasks'[i].pc # "issue")
                    => /\ authTasks'[i].pc = "done"
                       /\ Len(refreshTokens') = Len(refreshTokens) + 1
                       /\ SubSeq(refreshTokens', 1, Len(refreshTokens)) = refreshTokens
                       /\ refreshTokens'[Len(refreshTokens')].userId = authTasks[i].token[1].sub
                       /\ refreshTokens'[Len(refreshTokens')].expiresAt = dbNow + RefreshDays
            /\ authTasks[i].pc = "unauthorized"
                    => authTasks'[i] = authTasks[i] /\ authTasks[i].result = <<>>]_vars

\* the refresh token of a registration was presented twice, both times with
\* success: three records are stored for the user
C18_Witness ==
    \E r, a, b \in 1..Len(authTasks) :
        /\ a # b
        /\ authTasks[r].kind = "register" /\ authTasks[r].pc = "done"
        /\ authTasks[a].kind = "refresh" /\ authTasks[a].pc = "done"
        /\ authTasks[b].kind = "refresh" /\ authTasks[b].pc = "done"
        /\ authTasks[a].token = <<authTasks[r].result[1].refreshToken>>
        /\ authTasks[b].token = <<authTasks[r].result[1].refreshToken>>
        /\ Len(refreshTokens) = 3

\* C19: a socket that has disconnected is in no room, whatever it had joined
\* and without a channel:leave, and no event (message:new, typing:update or
\* any other) is delivered to it from then on.
C19_RoomCleanup ==
    /\ [](\A c \in Conns : sock[c] = "closed" => rooms[c] = {} /\ \A ch \in Channels : c \notin InRoom(ch))
    /\ [][\A c \in Conns :
            /\ sock'[c] = "closed" => inbox'[c] = inbox[c]
            /\ sock[c] = "closed" => sock'[c] = "closed"]_vars

\* two sockets joined a room, one disconnected without leaving it, then a
\* message:send to the room was broadcast: the other holds the message:new,
\* the disconnected one does not
C19_Witness ==
    \E c, d \in Conns, ch \in Channels :
        /\ sock[c] = "closed"
        /\ sock[d] = "open"
        /\ \E p \in 1..Len(inbox[c]) : inbox[c][p] = ChannelJoined(ch)
        /\ \A p \in 1..Len(inbox[c]) : inbox[c][p] # ChannelLeft(ch)
        /\ Received(c, IsMessageNew) = {}
        /\ \E k \in Received(d, IsMessageNew) : inbox[d][k].message.channelId = ch

\* listMessages of the row's channel (no limit given, no cursor) returns the row
Listed(row) ==
    \A r \in listMessages(row.channelId, DefaultLimit, <<>>) :
        \E k \in 1..Len(r) : messages[r[k]] = row

\* C20: every message:new delivered to a socket carries a row that was
\* stored before the step that delivers it and that listMessages of its
\* channel returns, the row of a message:send whose socket has the row's
\* senderId as identity; a message:send whose createMessage failed is never
\* broadcast: it stays failed and no inbox holds a message:new of it.
C20_PersistBeforeBroadcast ==
    /\ [][\A d \in Conns :
            (Len(inbox'[d]) > Len(inbox[d]) /\ IsMessageNew(inbox'[d][Len(inbox'[d])]))
                => LET row == inbox'[d][Len(inbox'[d])].message IN
                    /\ \E k \in 1..Len(messages) : messages[k] = row
                    /\ Listed(row)
                    /\ \E i \in 1..Len(tasks) :
                            /\ tasks[i].kind = "ws"
                            /\ tasks[i].row = <<row>>
                            /\ row.senderId = dataUser[tasks[i].conn[1]].userId
                            /\ row.channelId = tasks[i].channelId
                            /\ row.content = tasks[i].content]_vars
    /\ [][\A i \in 1..Len(tasks) : tasks[i].pc = "failed" => tasks'[i] = tasks[i]]_vars
    /\ [](\A i \in 1..Len(tasks) :
            tasks[i].pc = "failed" =>
                \A d \in Conns : \A k \in Received(d, IsMessageNew) : inbox[d][k].message.id # i)

\* a socket in a room sent two messages to it: the first was stored and
\* broadcast, the second was stored but its attachment links were rejected,
\* and the socket holds the first message:new only
C20_Witness ==
    \E i, j \in 1..Len(tasks), d \in Conns :
        /\ tasks[i].pc = "done"
        /\ tasks[j].pc = "failed"
        /\ tasks[j].row # <<>>
        /\ tasks[i].channelId = tasks[j].channelId
        /\ tasks[i].channelId \in rooms[d]
        /\ tasks[i].conn = <<d>>
        /\ tasks[j].conn = <<d>>
        /\ Cardinality(Received(d, IsMessageNew)) = 1
        /\ \E k \in Received(d, IsMessageNew) : inbox[d][k].message = tasks[i].row[1]

\* C21: a createMessage that failed has left no message row (listMessages
\* of the channel returns what it returned before the call); one that
\* returned holds its message row and a link row for each attachment id.
C21_AllOrNothing ==
    \A i \in 1..Len(tasks) :
        /\ tasks[i].pc = "failed" => \A k \in 1..Len(messages) : messages[k].id # i
        /\ tasks[i].pc \in {"return", "done"} =>
                /\ \E k \in 1..Len(messages) : messages[k] = tasks[i].row[1]
                /\ \A a \in Range(tasks[i].attachmentIds) :
                        [messageId |-> i, attachmentId |-> a] \in links

\* a setOnline/setOffline call of user u is between its write command (HSET)
\* and its expire command
BetweenWriteAndExpire(u) ==
    \E c \in Conns : dataUser[c].userId = u /\ (hcPc[c] = "expire" \/ hdPc[c] = "expire")

\* C22: whenever no setOnline/setOffline call of a user is between its HSET
\* and its EXPIRE, an existing presence record of the user has an expiration
\* of at most 60 seconds, also after a call that failed between the two.
C22_RecordExpires ==
    \A u \in Users :
        (Exists(u) /\ ~BetweenWriteAndExpire(u))
            => presence[u].expires /\ presence[u].left <= PresenceTtl

\* handleConnection ends in this step by disconnecting the client: it leaves
\* from the token check, the verification or setOnline, not from its emit
DroppedByHandler(c) ==
    /\ hcPc[c] \in {"idle", "verify", "hset", "expire"}
    /\ hcPc'[c] = "done"

\* C23: when handleConnection ends by disconnecting the client, the
\* connection has no attached identity, it does not own a presence record and
\* its handleDisconnect does not call setOffline; every connection whose
\* handleDisconnect broadcasts presence:update offline has received its own
\* presence:update online.
C23_NoPartialState ==
    [][\A c \in Conns :
        /\ DroppedByHandler(c) =>
                /\ dataUser'[c] = NoUser
                /\ hdPc'[c] \notin {"hget", "hset", "expire"}
                /\ \A u \in Users : "socketId" \in DOMAIN presence'[u].hash
                        => presence'[u].hash["socketId"] # c
        /\ (hdPc[c] \in {"skipped", "written"} /\ hdPc'[c] = "done")
                => Received(c, IsOnlineEvent) # {}]_vars

\* the open connections of user u whose handleConnection has completed
OpenAuthenticated(u) ==
    {c \in Conns : sock[c] = "open" /\ dataUser[c].userId = u /\ hcPc[c] = "done"}

\* C24: while a user has an authenticated connection that is still open, and
\* no setOnline/setOffline call of the user is in progress, getPresence of
\* the user returns "online".
C24_OnlineWhileOpen ==
    \A u \in Users :
        (OpenAuthenticated(u) # {} /\ Quiescent(u)) => getPresence(u) = "online"

\* C25: when handleDisconnect broadcasts presence:update offline for a user,
\* getPresence of that user, evaluated at that moment, returns "offline".
C25_OfflineAgreesWithStore ==
    [][\A c \in Conns :
        (hdPc[c] \in {"skipped", "written"} /\ hdPc'[c] = "done")
            => getPresence(dataUser[c].userId) = "offline"]_vars

\* the step appends a message:new, typing:update or presence:update to the inbox of c
ReceivesRoomEvent(c) ==
    /\ Len(inbox'[c]) > Len(inbox[c])
    /\ inbox'[c][Len(inbox'[c])].type \in {"message:new", "typing:update", "presence:update"}

\* C26: a connection is in a room, receives message:new, typing:update or
\* presence:update, or has its typing:start, typing:stop or message:send
\* handler run, only while it has an attached identity.
C26_AuthenticatedOnly ==
    [][\A c \in Conns :
        /\ rooms'[c] # {} => dataUser'[c] # NoUser
        /\ ReceivesRoomEvent(c) => dataUser[c] # NoUser
        /\ (\E ch \in Channels :
                \/ typingStart(c, ch)
                \/ typingStop(c, ch)
                \/ \E content \in Contents, atts \in AttachmentLists : sendMessage(c, ch, content, atts))
                => dataUser[c] # NoUser]_vars

\* the event that the step appends to the inbox of c is of channel ch
ReceivesOfChannel(c, ch) ==
    /\ Len(inbox'[c]) > Len(inbox[c])
    /\ LET ev == inbox'[c][Len(inbox'[c])] IN
        \/ ev.type = "message:new" /\ ev.message.channelId = ch
        \/ ev.type = "typing:update" /\ ev.channelId = ch

\* C27: a message:new or typing:update of channel C is delivered only to
\* connections whose attached user has a channel_members row for C, and a
\* message is persisted in C only when its sender has such a row.
C27_Confidentiality ==
    [][/\ \A c \in Conns, ch \in CreatedChannels :
            ReceivesOfChannel(c, ch) => MembershipRows(dataUser[c].userId, ch) # {}
       /\ \A i \in 1..Len(tasks) :
            createMessage_insert(i) => MembershipRows(tasks[i].senderId, tasks[i].channelId) # {}]_vars

\* the message:new events of channel ch that the client's socket has been sent
BroadcastToClient(ch) ==
    {inbox[1][k].message : k \in {j \in Received(1, IsMessageNew) : inbox[1][j].message.channelId = ch}}

\* the history response is applied, every event sent to the socket has been
\* handled, and no message:send is still to be stored or broadcast
ClientSettled ==
    /\ client.fetch = "applied"
    /\ client.handled = Len(inbox[1])
    /\ \A i \in 1..Len(tasks) : tasks[i].pc \notin {"insert", "links", "return"}

\* C28: once the history response and every message:new have been
\* processed, the client's list of the selected channel has no two entries
\* with the same id, and holds every message that was fetched or broadcast
\* to it, all of them persisted messages of the channel.
C28_ClientListExact ==
    ClientSettled =>
        LET ch == client.active[1]
            list == client.messages[ch]
        IN  /\ \A j, k \in 1..Len(list) : j # k => list[j].id # list[k].id
            /\ Range(client.fetched) \cup BroadcastToClient(ch) \subseteq Range(list)
            /\ \A k \in 1..Len(list) :
                    list[k].channelId = ch /\ list[k] \in Range(messages)
====
